---- MODULE Spec2Model ----
(***************************************************************************)
(* Model of segmentation/compartments.py:                                  *)
(*   segment_compartments_from_holes  (threshold sweep over one image)     *)
(*   segment_zstack                   (z-stack driver with cached_step)    *)
(*   cluster_by_centroid              (StandardScaler + DBSCAN)            *)
(***************************************************************************)
EXTENDS Integers, Sequences, FiniteSets, TLC

(***************************************************************************)
(* Bounds of the model and constants of the program.                       *)
(***************************************************************************)
\* images have three rows and GridCols columns
GridCols == 3
\* an input texture has at most MaxBright pixels above the background
MaxBright == 2
\* the texture value of the bright pixels of an input (the background is 0)
Bright == 12
\* np.arange(start=1, stop=300, step=1)
SweepStart == 1
SweepStop == 300

None == "None"

(***************************************************************************)
(* Images.  A pixel is <<row, col>>.  A texture image (entr_img, 8 bit)    *)
(* comes with the block mean the library's threshold_local computes from   *)
(* it: mean2 holds twice that mean, so that halves are representable.      *)
(***************************************************************************)
Pix == (0 .. 2) \X (0 .. GridCols - 1)

PixKey(p) == p[1] * GridCols + p[2]

\* 8-bit texture values used by the inputs: background and one bright level
Levels == {0, Bright}

\* 4-neighbours of a pixel inside the image
Neigh4(p) ==
    {q \in Pix : (q[1] = p[1] /\ (q[2] - p[2]) \in {-1, 1})
              \/ (q[2] = p[2] /\ (q[1] - p[1]) \in {-1, 1})}

RECURSIVE SumOver(_, _)
SumOver(f, S) ==
    IF S = {} THEN 0
    ELSE LET x == CHOOSE y \in S : TRUE IN f[x] + SumOver(f, S \ {x})

\* twice the block mean of the texture: either the block is so small that the
\* mean is the pixel itself ("sharp"), or the pixel is averaged with its
\* 4-neighbours ("soft")
BlockMean2(entr, blur) ==
    [p \in Pix |->
        IF blur = "sharp" THEN 2 * entr[p]
        ELSE (2 * (entr[p] + SumOver(entr, Neigh4(p)))) \div (1 + Cardinality(Neigh4(p)))]

Textures ==
    {e \in [Pix -> Levels] : Cardinality({p \in Pix : e[p] # 0}) <= MaxBright}

\* valid 2-D images, as their texture map and its block mean
ValidImages ==
    {[valid |-> TRUE, entr |-> e, mean2 |-> BlockMean2(e, b)] :
        e \in Textures, b \in {"sharp", "soft"}}

\* a non-2-D or empty array
MalformedImage ==
    [valid |-> FALSE, entr |-> [p \in Pix |-> 0], mean2 |-> [p \in Pix |-> 0]]

(***************************************************************************)
(* Line 33: threshold_local(entr_img, block_size=35, offset=offst) is the  *)
(* block mean minus the offset (kept doubled).                             *)
(***************************************************************************)
threshold_local(img, offst) == [p \in Pix |-> img.mean2[p] - 2 * offst]

(***************************************************************************)
(* Line 34: img_as_bool of a float image is image > 0.5 (doubled: > 1).    *)
(***************************************************************************)
img_as_bool(local_thresh2) == [p \in Pix |-> local_thresh2[p] > 1]

(***************************************************************************)
(* Line 35: label(binary_local), 8-connected components numbered from 1 in *)
(* raster order of their first pixel; background is 0.                     *)
(***************************************************************************)
Neigh8(p) ==
    {q \in Pix : q # p /\ (q[1] - p[1]) \in {-1, 0, 1} /\ (q[2] - p[2]) \in {-1, 0, 1}}

RECURSIVE Flood(_, _)
Flood(binary, comp) ==
    LET add == {q \in Pix : binary[q] /\ q \notin comp /\ Neigh8(q) \cap comp # {}}
    IN IF add = {} THEN comp ELSE Flood(binary, comp \cup add)

MinKey(S) == CHOOSE k \in {PixKey(p) : p \in S} : \A p \in S : k <= PixKey(p)

label(binary) ==
    LET first(p) == MinKey(Flood(binary, {p}))
        firsts == {first(p) : p \in {q \in Pix : binary[q]}}
    IN [p \in Pix |->
          IF binary[p] THEN Cardinality({k \in firsts : k <= first(p)}) ELSE 0]

(***************************************************************************)
(* Line 38: find_contours(label_image, 0.9), marching squares.  A contour  *)
(* vertex lies on the edge between two adjacent pixels of which exactly    *)
(* one is above the level; it is named by the sum of the two pixels'       *)
(* coordinates (twice the edge's midpoint).  Each 2x2 cell contributes the *)
(* segments of its case; segments sharing a vertex are joined into one     *)
(* contour, a closed one repeating its first vertex at the end.            *)
(***************************************************************************)
Cells == (0 .. 1) \X (0 .. GridCols - 2)

Above(lab, p) == 10 * lab[p] > 9

CellSegments(lab, cell) ==
    LET r == cell[1]
        c == cell[2]
        ul == Above(lab, <<r, c>>)
        ur == Above(lab, <<r, c + 1>>)
        ll == Above(lab, <<r + 1, c>>)
        lr == Above(lab, <<r + 1, c + 1>>)
        top == <<2 * r, 2 * c + 1>>
        bottom == <<2 * r + 2, 2 * c + 1>>
        left == <<2 * r + 1, 2 * c>>
        right == <<2 * r + 1, 2 * c + 2>>
        case == (IF ul THEN 1 ELSE 0) + (IF ur THEN 2 ELSE 0)
                + (IF ll THEN 4 ELSE 0) + (IF lr THEN 8 ELSE 0)
    IN CASE case \in {0, 15} -> {}
         [] case \in {1, 14} -> {{top, left}}
         [] case \in {2, 13} -> {{right, top}}
         [] case \in {3, 12} -> {{right, left}}
         [] case \in {4, 11} -> {{left, bottom}}
         [] case \in {5, 10} -> {{top, bottom}}
         [] case = 6 -> {{right, top}, {left, bottom}}
         [] case \in {7, 8} -> {{right, bottom}}
         [] case = 9 -> {{top, left}, {bottom, right}}

Segments(lab) == UNION {CellSegments(lab, cell) : cell \in Cells}

RECURSIVE Joined(_, _)
Joined(segs, comp) ==
    LET add == {s \in segs \ comp : \E t \in comp : s \cap t # {}}
    IN IF add = {} THEN comp ELSE Joined(segs, comp \cup add)

VKey(v) == v[1] * (2 * GridCols + 1) + v[2]

MinVertex(S) == CHOOSE v \in S : \A w \in S : VKey(v) <= VKey(w)

\* the vertices of one contour in order, from vertex cur along the unused
\* segments
RECURSIVE Trace(_, _)
Trace(cur, unused) ==
    LET next == {s \in unused : cur \in s}
    IN IF next = {} THEN <<cur>>
       ELSE LET s == CHOOSE t \in next :
                        \A u \in next : VKey(MinVertex(t \ {cur})) <= VKey(MinVertex(u \ {cur}))
                nxt == MinVertex(s \ {cur})
            IN <<cur>> \o Trace(nxt, unused \ {s})

ContourOf(comp) ==
    LET verts == UNION comp
        ends == {v \in verts : Cardinality({s \in comp : v \in s}) = 1}
        start == IF ends # {} THEN MinVertex(ends) ELSE MinVertex(verts)
    IN Trace(start, comp)

RECURSIVE AssembleContours(_)
AssembleContours(segs) ==
    IF segs = {} THEN <<>>
    ELSE LET v0 == MinVertex(UNION segs)
             s0 == CHOOSE s \in segs : v0 \in s
             comp == Joined(segs, {s0})
         IN <<ContourOf(comp)>> \o AssembleContours(segs \ comp)

find_contours(label_image) == AssembleContours(Segments(label_image))

(***************************************************************************)
(* Lines 42-51: the records of one offset.                                 *)
(***************************************************************************)
\* the test with the bound off by one: two-vertex contours pass
DegenerateBelowTwo(contr) == Len(contr) < 2

\* line 43: if len(contr) < 3: continue
Degenerate(contr) == Len(contr) < 3

\* line 47: np.fliplr(contr), (row, col) -> (x, y) = (col, row)
fliplr(contr) == [i \in 1 .. Len(contr) |-> <<contr[i][2], contr[i][1]>>]

Polygon(coords) == coords

RECURSIVE PolygonsOf(_, _)
PolygonsOf(contours, offst) ==
    IF contours = <<>> THEN <<>>
    ELSE LET contr == Head(contours)
         IN (IF Degenerate(contr) THEN <<>>
             ELSE <<[offset |-> offst, boundary |-> Polygon(fliplr(contr))]>>)
            \o PolygonsOf(Tail(contours), offst)

\* lines 33-38 for one offset
ContoursAt(img, offst) ==
    find_contours(label(img_as_bool(threshold_local(img, offst))))

(***************************************************************************)
(* segment_compartments_from_holes as a function of its argument: what a   *)
(* caller (cached_step) gets.  Raised stands for the exception that leaves *)
(* lines 24-29 on a malformed image.                                       *)
(***************************************************************************)
Raised == "Raised"

\* the records of the offsets lo .. hi, in order
RECURSIVE SweepRange(_, _, _)
SweepRange(img, lo, hi) ==
    IF lo > hi THEN <<>>
    ELSE IF lo = hi THEN PolygonsOf(ContoursAt(img, lo), lo)
    ELSE LET mid == (lo + hi) \div 2
         IN SweepRange(img, lo, mid) \o SweepRange(img, mid + 1, hi)

segment_compartments_from_holes(img) ==
    IF img.valid THEN SweepRange(img, SweepStart, SweepStop - 1) ELSE Raised

(***************************************************************************)
(* The image source (CachedImageFile): z-indices, channels and frames of   *)
(* the file, and the image stored at a coordinate.                         *)
(***************************************************************************)
\* number of z-indices image_structure.zstacks declares
NumZ == 3
\* number of segment_zstack calls made on the same cache folder
MaxCalls == 2

zstacks == [i \in 1 .. NumZ |-> i - 1]
Zs == {zstacks[i] : i \in 1 .. NumZ}
Channels == {1, 11}
Frames == {0, 10}

Tex(S) == [p \in Pix |-> IF p \in S THEN Bright ELSE 0]

\* the pictures stored in the file: a flat one, a single pixel on the border,
\* a corner pixel touching an inner one
Pictures ==
    << [valid |-> TRUE, entr |-> Tex({}), mean2 |-> BlockMean2(Tex({}), "sharp")],
       [valid |-> TRUE, entr |-> Tex({<<0, 1>>}), mean2 |-> BlockMean2(Tex({<<0, 1>>}), "sharp")],
       [valid |-> TRUE, entr |-> Tex({<<0, 0>>, <<1, 1>>}),
        mean2 |-> BlockMean2(Tex({<<0, 0>>, <<1, 1>>}), "soft")] >>

PictureAt(c, z, t) == Pictures[((z + 2 * c + t) % Len(Pictures)) + 1]

\* what the segmenter returns for each stored picture
SegmentedPictures ==
    << segment_compartments_from_holes(Pictures[1]),
       segment_compartments_from_holes(Pictures[2]),
       segment_compartments_from_holes(Pictures[3]) >>

\* image_structure.ix_at(c, z, t): the index of the image at the coordinate,
\* None when the file has none
ix_at(file, c, z, t) == IF z \in file.present THEN <<c, z, t>> ELSE None

\* image_structure.image(ix): the image and its metadata
image_md(file, ix) ==
    [image |-> IF ix[2] = file.malformed THEN MalformedImage
               ELSE PictureAt(ix[1], ix[2], ix[3]),
     channel |-> ix[1], z |-> ix[2], frame |-> ix[3]]

(***************************************************************************)
(* Line 69: f"z{img_md.z}c{img_md.channel}t{img_md.frame}-bags.obj", a     *)
(* string as the sequence of its characters.                               *)
(***************************************************************************)
Digit(d) == <<"0", "1", "2", "3", "4", "5", "6", "7", "8", "9">>[d + 1]

RECURSIVE Str(_)
Str(n) ==
    IF n < 0 THEN <<"-">> \o Str(-n)
    ELSE IF n < 10 THEN <<Digit(n)>>
    ELSE Str(n \div 10) \o <<Digit(n % 10)>>

\* the name without the separating letters
CacheKeyUnseparated(z, c, t) ==
    Str(z) \o Str(c) \o Str(t) \o <<"-", "b", "a", "g", "s", ".", "o", "b", "j">>

CacheKey(z, c, t) ==
    <<"z">> \o Str(z) \o <<"c">> \o Str(c) \o <<"t">> \o Str(t)
        \o <<"-", "b", "a", "g", "s", ".", "o", "b", "j">>

(***************************************************************************)
(* Lines 72-77: the slice's table, its z column, the post-processing.      *)
(***************************************************************************)
\* the z column filled from the first declared z-index
TagFirstZ(compartments, z) ==
    [i \in 1 .. Len(compartments) |->
        [offset |-> compartments[i].offset, boundary |-> compartments[i].boundary,
         z |-> zstacks[1]]]

\* lines 72-73: pd.DataFrame(compartments); df.loc[:, 'z'] = z
TagZ(compartments, z) ==
    [i \in 1 .. Len(compartments) |->
        [offset |-> compartments[i].offset, boundary |-> compartments[i].boundary,
         z |-> z]]

\* measurements.simple_polygon: may drop rows whose boundary is degenerate
simple_polygon(df, drop) ==
    IF drop THEN SelectSeq(df, LAMBDA r : Len(r.boundary) > 3) ELSE df

\* measurements.concentric: annotates the rows
concentric(df) == df

(***************************************************************************)
(* cluster_by_centroid, lines 82-90.  A table is its rows and, when it has *)
(* one, its cluster column.  A failed call is the line that raised.        *)
(***************************************************************************)
\* number of rows of the largest input table
MaxRows == 4

Failure(line) == [raised |-> TRUE, line |-> line]

\* input polygons: unit squares along a line, and the empty polygon
Square(x, y) == <<<<x, y>>, <<x + 1, y>>, <<x + 1, y + 1>>, <<x, y + 1>>>>
EmptyPolygon == <<>>
InputPolygons == {Square(0, 0), Square(1, 0), Square(2, 0), Square(6, 0), EmptyPolygon}

RECURSIVE SumSeq(_)
SumSeq(q) == IF q = <<>> THEN 0 ELSE Head(q) + SumSeq(Tail(q))

\* b.centroid.coords[:]: no tuple for an empty polygon, else the area-weighted
\* centroid (shoelace sums), kept doubled; the division is exact for the
\* input polygons
CentroidCoords(b) ==
    IF b = <<>> THEN <<>>
    ELSE LET n == Len(b)
             nx(i) == b[(i % n) + 1]
             cross(i) == b[i][1] * nx(i)[2] - nx(i)[1] * b[i][2]
             a2 == SumSeq([i \in 1 .. n |-> cross(i)])
             sx == SumSeq([i \in 1 .. n |-> (b[i][1] + nx(i)[1]) * cross(i)])
             sy == SumSeq([i \in 1 .. n |-> (b[i][2] + nx(i)[2]) * cross(i)])
         IN << <<(2 * sx) \div (3 * a2), (2 * sy) \div (3 * a2)>> >>

\* lines 83-84: the centroid tuples of all rows, flattened into one list
RECURSIVE Flatten(_)
Flatten(lists) == IF lists = <<>> THEN <<>> ELSE Head(lists) \o Flatten(Tail(lists))

CentroidList(rows) == Flatten([i \in 1 .. Len(rows) |-> CentroidCoords(rows[i].boundary)])

\* line 85: StandardScaler().fit_transform(X).  With n points, sum s and
\* v = n * sum of squares - s * s, the standardized coordinate of x is
\* (n * x - s) / sqrt(v); a zero variance is replaced by scale 1.  The result
\* keeps the numerators and v per axis.
StandardScaler(X) ==
    LET n == Len(X)
        s1 == SumSeq([i \in 1 .. n |-> X[i][1]])
        s2 == SumSeq([i \in 1 .. n |-> X[i][2]])
        v1 == n * SumSeq([i \in 1 .. n |-> X[i][1] * X[i][1]]) - s1 * s1
        v2 == n * SumSeq([i \in 1 .. n |-> X[i][2] * X[i][2]]) - s2 * s2
    IN [pts |-> [i \in 1 .. n |-> <<n * X[i][1] - s1, n * X[i][2] - s2>>],
        vx |-> IF v1 = 0 THEN n * n ELSE v1,
        vy |-> IF v2 = 0 THEN n * n ELSE v2]

\* Euclidean distance of the standardized points i and j at most eps = eps2 / 2
Within(S, i, j, eps2) ==
    LET dx == S.pts[i][1] - S.pts[j][1]
        dy == S.pts[i][2] - S.pts[j][2]
    IN 4 * (dx * dx * S.vy + dy * dy * S.vx) <= eps2 * eps2 * S.vx * S.vy

Neighborhood(S, i, eps2) == {j \in 1 .. Len(S.pts) : Within(S, i, j, eps2)}

\* core sample: at least min_samples points, itself included, within eps
IsCore(S, i, eps2, min_samples) == Cardinality(Neighborhood(S, i, eps2)) >= min_samples

\* the expansion that follows core points only: a neighbour that is not a
\* core point is never labelled
RECURSIVE ExpandCoreOnly(_, _, _, _, _, _, _)
ExpandCoreOnly(S, eps2, min_samples, labels, i, stack, label_num) ==
    LET fresh == labels[i] = -1
        labels1 == IF fresh THEN [labels EXCEPT ![i] = label_num] ELSE labels
        pushed == IF fresh
                  THEN SelectSeq([j \in 1 .. Len(S.pts) |-> j],
                                 LAMBDA v : /\ Within(S, i, v, eps2)
                                            /\ labels1[v] = -1
                                            /\ IsCore(S, v, eps2, min_samples))
                  ELSE <<>>
        stack1 == stack \o pushed
    IN IF stack1 = <<>> THEN labels1
       ELSE ExpandCoreOnly(S, eps2, min_samples, labels1, stack1[Len(stack1)],
                           SubSeq(stack1, 1, Len(stack1) - 1), label_num)

\* DBSCAN's depth-first expansion of one cluster from point i: stack is the
\* sequence of points still to visit
RECURSIVE Expand(_, _, _, _, _, _, _)
Expand(S, eps2, min_samples, labels, i, stack, label_num) ==
    LET fresh == labels[i] = -1
        labels1 == IF fresh THEN [labels EXCEPT ![i] = label_num] ELSE labels
        pushed == IF fresh /\ IsCore(S, i, eps2, min_samples)
                  THEN SelectSeq([j \in 1 .. Len(S.pts) |-> j],
                                 LAMBDA v : Within(S, i, v, eps2) /\ labels1[v] = -1)
                  ELSE <<>>
        stack1 == stack \o pushed
    IN IF stack1 = <<>> THEN labels1
       ELSE Expand(S, eps2, min_samples, labels1, stack1[Len(stack1)],
                   SubSeq(stack1, 1, Len(stack1) - 1), label_num)

\* DBSCAN's loop over the points in row order
RECURSIVE Scan(_, _, _, _, _, _)
Scan(S, eps2, min_samples, labels, i, label_num) ==
    IF i > Len(S.pts) THEN labels
    ELSE IF labels[i] # -1 \/ ~IsCore(S, i, eps2, min_samples)
         THEN Scan(S, eps2, min_samples, labels, i + 1, label_num)
         ELSE Scan(S, eps2, min_samples,
                   Expand(S, eps2, min_samples, labels, i, <<>>, label_num),
                   i + 1, label_num + 1)

\* eps = 0 passes the check
EpsRejectedBelowZero(eps2) == eps2 < 0

\* DBSCAN.fit: "eps must be positive"
EpsRejected(eps2) == eps2 <= 0

\* DBSCAN.fit: min_samples < 1 is rejected by the library versions that
\* validate it
MinSamplesRejected(min_samples, validates) == validates /\ min_samples < 1

\* line 88: db = DBSCAN(eps=eps, min_samples=min_samples).fit(X)
DBSCAN(S, eps2, min_samples, validates) ==
    IF EpsRejected(eps2) \/ MinSamplesRejected(min_samples, validates)
    THEN Failure(88)
    ELSE [raised |-> FALSE,
          labels_ |-> Scan(S, eps2, min_samples, [i \in 1 .. Len(S.pts) |-> -1], 1, 0)]

\* line 90: df.assign(cluster=db.labels_), a new table; the column must have
\* one value per row
Assign(df, labels) ==
    IF Len(labels) # Len(df.rows) THEN Failure(90)
    ELSE [raised |-> FALSE, table |-> [rows |-> df.rows, cluster |-> labels]]

\* the rows labelled noise are left out of the result
cluster_by_centroid_without_noise(df, eps2, min_samples, validates) ==
    LET X == CentroidList(df.rows)
    IN IF df.rows = <<>> THEN Failure(83)
       ELSE IF X = <<>> THEN Failure(85)
       ELSE LET db == DBSCAN(StandardScaler(X), eps2, min_samples, validates)
            IN IF db.raised THEN db
               ELSE IF Len(db.labels_) # Len(df.rows) THEN Failure(90)
               ELSE LET idx == SelectSeq([i \in 1 .. Len(db.labels_) |-> i],
                                         LAMBDA i : db.labels_[i] >= 0)
                    IN [raised |-> FALSE,
                        table |-> [rows |-> [k \in 1 .. Len(idx) |-> df.rows[idx[k]]],
                                   cluster |-> [k \in 1 .. Len(idx) |-> db.labels_[idx[k]]]]]

\* lines 83-90; an empty table has no 'boundary' column (line 83 raises), a
\* table of empty polygons has no centroid to scale (line 85 raises)
cluster_by_centroid(df, eps2, min_samples, validates) ==
    LET X == CentroidList(df.rows)
    IN IF df.rows = <<>> THEN Failure(83)
       ELSE IF X = <<>> THEN Failure(85)
       ELSE LET db == DBSCAN(StandardScaler(X), eps2, min_samples, validates)
            IN IF db.raised THEN db ELSE Assign(df, db.labels_)

(***************************************************************************)
(* State.                                                                  *)
(*   segment_compartments_from_holes: image (argument), offst (loop        *)
(*   variable), local_thresh and binary_local (locals of the loop body,    *)
(*   None before the first iteration), segmented_polygons (the list), pc   *)
(*   (position), ret (the value returned, None until then), failed_at (the *)
(*   offset whose primitive raised, 0 if none).                            *)
(*   segment_zstack: file (image_structure: the z-indices that have an     *)
(*   image, the z-index whose image is malformed, whether post-processing  *)
(*   drops rows), channel and frame (arguments), zi (position of the loop  *)
(*   in zstacks), out (the table), cache (the cache folder: key -> pickled *)
(*   list), log_z (the z-indices logged at line 66, with whether           *)
(*   cached_step found the key), pcz (position), stack_ret (the table      *)
(*   returned, None until then), ncalls (calls made so far), segmented     *)
(*   (what the pure segment_compartments_from_holes returns for each       *)
(*   picture of the file).                                                 *)
(*   cluster_by_centroid: df (the table passed in), eps2 (twice eps),      *)
(*   min_samples, validates (whether the installed DBSCAN rejects          *)
(*   min_samples < 1), clustered (the outcome of the call), pcc            *)
(*   (position).                                                           *)
(***************************************************************************)
VARIABLES image, offst, local_thresh, binary_local, segmented_polygons, pc, ret,
          failed_at

VARIABLES file, channel, frame, zi, out, cache, log_z, pcz, stack_ret, ncalls,
          segmented

VARIABLES df, eps2, min_samples, validates, clustered, pcc

sweepVars ==
    <<image, offst, local_thresh, binary_local, segmented_polygons, pc, ret, failed_at>>

stackVars ==
    <<file, channel, frame, zi, out, cache, log_z, pcz, stack_ret, ncalls, segmented>>

clusterVars == <<df, eps2, min_samples, validates, clustered, pcc>>

vars == <<sweepVars, stackVars, clusterVars>>

\* cluster_by_centroid is not running
ClusterIdle ==
    /\ df = [rows |-> <<>>, cluster |-> <<>>]
    /\ eps2 = 1
    /\ min_samples = 1
    /\ validates = TRUE
    /\ clustered = None
    /\ pcc = "idle"

\* segment_zstack is not running
StackIdle ==
    /\ file = [present |-> {}, malformed |-> -1, drop |-> FALSE]
    /\ channel = 0
    /\ frame = 0
    /\ zi = 1
    /\ out = <<>>
    /\ cache = <<>>
    /\ log_z = <<>>
    /\ pcz = "idle"
    /\ stack_ret = None
    /\ ncalls = 0
    /\ segmented = <<>>

\* segment_compartments_from_holes is not running on its own
SweepIdle ==
    /\ image = MalformedImage
    /\ offst = SweepStart
    /\ local_thresh = None
    /\ binary_local = None
    /\ segmented_polygons = <<>>
    /\ pc = "idle"
    /\ ret = None
    /\ failed_at = 0

(***************************************************************************)
(* segment_compartments_from_holes, lines 23-53.                           *)
(***************************************************************************)
SweepInit ==
    /\ image \in ValidImages \cup {MalformedImage}
    /\ offst = SweepStart
    /\ local_thresh = None
    /\ binary_local = None
    /\ segmented_polygons = <<>>
    /\ pc = "texture"
    /\ ret = None
    /\ failed_at = 0
    /\ StackIdle
    /\ ClusterIdle

\* lines 24-31: rescale, invert, entropy; a malformed image raises here
Texture ==
    /\ pc = "texture"
    /\ pc' = IF image.valid THEN "sweep" ELSE "raised"
    /\ UNCHANGED <<image, offst, local_thresh, binary_local, segmented_polygons, ret,
                   failed_at, stackVars, clusterVars>>

\* the loop body that drops a contour whose polygon is already in the list
SweepIterDedup ==
    /\ pc = "sweep"
    /\ offst < SweepStop
    /\ local_thresh' = threshold_local(image, offst)
    /\ binary_local' = img_as_bool(local_thresh')
    /\ LET new == PolygonsOf(find_contours(label(binary_local')), offst)
           seen == {segmented_polygons[i].boundary : i \in 1 .. Len(segmented_polygons)}
       IN segmented_polygons' =
              segmented_polygons \o SelectSeq(new, LAMBDA r : r.boundary \notin seen)
    /\ offst' = offst + 1
    /\ UNCHANGED <<image, pc, ret, failed_at, stackVars, clusterVars>>

\* lines 32-51: one iteration of the for loop
SweepIter ==
    /\ pc = "sweep"
    /\ offst < SweepStop
    /\ local_thresh' = threshold_local(image, offst)
    /\ binary_local' = img_as_bool(local_thresh')
    /\ segmented_polygons' =
           segmented_polygons \o PolygonsOf(find_contours(label(binary_local')), offst)
    /\ offst' = offst + 1
    /\ UNCHANGED <<image, pc, ret, failed_at, stackVars, clusterVars>>

\* the loop body wrapped in try/except: the failing offset is skipped
SweepSkipFailure ==
    /\ pc = "sweep"
    /\ offst < SweepStop
    /\ failed_at' = offst
    /\ offst' = offst + 1
    /\ UNCHANGED <<image, local_thresh, binary_local, segmented_polygons, pc, ret, stackVars, clusterVars>>

\* lines 33-38: threshold_local, label or find_contours raises at this
\* offset; nothing in the loop or after it catches the exception
SweepRaise ==
    /\ pc = "sweep"
    /\ offst < SweepStop
    /\ pc' = "raised"
    /\ failed_at' = offst
    /\ UNCHANGED <<image, offst, local_thresh, binary_local, segmented_polygons, ret,
                   stackVars, clusterVars>>

\* line 53: return segmented_polygons
SweepReturn ==
    /\ pc = "sweep"
    /\ offst = SweepStop
    /\ ret' = segmented_polygons
    /\ pc' = "done"
    /\ UNCHANGED <<image, offst, local_thresh, binary_local, segmented_polygons,
                   failed_at, stackVars, clusterVars>>

SweepNext == Texture \/ SweepIter \/ SweepRaise \/ SweepReturn

Spec == SweepInit /\ [][SweepNext]_vars

(***************************************************************************)
(* segment_zstack, lines 56-79, with cached_step.                          *)
(***************************************************************************)
Files ==
    {[present |-> P, malformed |-> m, drop |-> d] :
        P \in SUBSET Zs, m \in Zs \cup {-1}, d \in BOOLEAN}

\* segment_compartments_from_holes(img) for an image of the file
SegmentOf(img) ==
    IF img.valid
    THEN segmented[CHOOSE i \in 1 .. Len(Pictures) : Pictures[i] = img]
    ELSE Raised

StackInit ==
    /\ segmented = SegmentedPictures
    /\ SweepIdle
    /\ ClusterIdle
    /\ file \in Files
    /\ channel \in Channels
    /\ frame \in Frames
    /\ zi = 1
    /\ out = <<>>
    /\ cache = <<>>
    /\ log_z = <<>>
    /\ pcz = "loop"
    /\ stack_ret = None
    /\ ncalls = 1

\* a later call on the same file and cache folder
StackCall ==
    /\ pcz \in {"done", "raised"}
    /\ ncalls < MaxCalls
    /\ channel' \in Channels
    /\ frame' \in Frames
    /\ zi' = 1
    /\ out' = <<>>
    /\ log_z' = <<>>
    /\ pcz' = "loop"
    /\ stack_ret' = None
    /\ ncalls' = ncalls + 1
    /\ UNCHANGED <<file, cache, segmented, sweepVars, clusterVars>>

\* lines 61-63: no image at the coordinate, continue
StackSkip ==
    /\ pcz = "loop"
    /\ zi <= Len(zstacks)
    /\ ix_at(file, channel, zstacks[zi], frame) = None
    /\ zi' = zi + 1
    /\ UNCHANGED <<file, channel, frame, out, cache, log_z, pcz, stack_ret, ncalls,
                   segmented, sweepVars, clusterVars>>

\* cached_step(name, function, *args): the pickled value under the name when
\* there is one, else the function's value, stored under the name
CacheHas(key) == key \in DOMAIN cache

CacheStore(key, val) ==
    [k \in DOMAIN cache \cup {key} |-> IF k = key THEN val ELSE cache[k]]

\* lines 64-78: the slice is segmented (or read from the cache), tagged,
\* post-processed and appended
StackSlice ==
    /\ pcz = "loop"
    /\ zi <= Len(zstacks)
    /\ LET z == zstacks[zi]
           ix == ix_at(file, channel, z, frame)
       IN /\ ix # None
          /\ LET img_md == image_md(file, ix)
                 key == CacheKey(img_md.z, img_md.channel, img_md.frame)
                 hit == CacheHas(key)
                 compartments == IF hit THEN cache[key] ELSE SegmentOf(img_md.image)
             IN /\ hit \/ img_md.image.valid
                /\ cache' = IF hit THEN cache ELSE CacheStore(key, compartments)
                /\ log_z' = Append(log_z, [z |-> z, hit |-> hit])
                /\ out' = out \o concentric(simple_polygon(TagZ(compartments, z), file.drop))
    /\ zi' = zi + 1
    /\ UNCHANGED <<file, channel, frame, pcz, stack_ret, ncalls, segmented, sweepVars, clusterVars>>

\* the loop body wrapped in try/except: the slice that fails is left out
StackSkipMalformed ==
    /\ pcz = "loop"
    /\ zi <= Len(zstacks)
    /\ LET z == zstacks[zi]
           ix == ix_at(file, channel, z, frame)
       IN /\ ix # None
          /\ LET img_md == image_md(file, ix)
             IN /\ ~CacheHas(CacheKey(img_md.z, img_md.channel, img_md.frame))
                /\ ~img_md.image.valid
          /\ log_z' = Append(log_z, [z |-> z, hit |-> FALSE])
    /\ zi' = zi + 1
    /\ UNCHANGED <<file, channel, frame, out, cache, pcz, stack_ret, ncalls, segmented,
                   sweepVars, clusterVars>>

\* lines 64-71: segment_compartments_from_holes raises on a malformed image;
\* neither cached_step nor segment_zstack catches the exception
StackRaise ==
    /\ pcz = "loop"
    /\ zi <= Len(zstacks)
    /\ LET z == zstacks[zi]
           ix == ix_at(file, channel, z, frame)
       IN /\ ix # None
          /\ LET img_md == image_md(file, ix)
             IN /\ ~CacheHas(CacheKey(img_md.z, img_md.channel, img_md.frame))
                /\ ~img_md.image.valid
          /\ log_z' = Append(log_z, [z |-> z, hit |-> FALSE])
    /\ pcz' = "raised"
    /\ UNCHANGED <<file, channel, frame, zi, out, cache, stack_ret, ncalls, segmented,
                   sweepVars, clusterVars>>

\* line 79: return out.reset_index(drop=True)
StackReturn ==
    /\ pcz = "loop"
    /\ zi > Len(zstacks)
    /\ stack_ret' = out
    /\ pcz' = "done"
    /\ UNCHANGED <<file, channel, frame, zi, out, cache, log_z, ncalls, segmented,
                   sweepVars, clusterVars>>

StackNext == StackCall \/ StackSkip \/ StackSlice \/ StackRaise \/ StackReturn

SpecStack == StackInit /\ [][StackNext]_vars

(***************************************************************************)
(* cluster_by_centroid called on a table.                                  *)
(***************************************************************************)
RowsOf(polys) ==
    [i \in 1 .. Len(polys) |-> [offset |-> i, boundary |-> polys[i], z |-> 0]]

PolygonLists == UNION {[1 .. n -> InputPolygons] : n \in 0 .. MaxRows}

\* tables without a cluster column, and tables an earlier call returned with
\* every row in cluster 0 (such a table has rows, each with a centroid)
InputTables ==
    {[rows |-> RowsOf(q), cluster |-> <<>>] : q \in PolygonLists} \cup
    {[rows |-> RowsOf(q), cluster |-> [i \in 1 .. Len(q) |-> 0]] :
        q \in {l \in PolygonLists : l # <<>> /\ \A i \in 1 .. Len(l) : l[i] # EmptyPolygon}}

EpsChoices == {-1, 0, 1, 4}
MinSamplesChoices == {0, 1, 3}

ClusterInit ==
    /\ SweepIdle
    /\ StackIdle
    /\ df \in InputTables
    /\ eps2 \in EpsChoices
    /\ min_samples \in MinSamplesChoices
    /\ validates \in IF min_samples < 1 THEN BOOLEAN ELSE {TRUE}
    /\ clustered = None
    /\ pcc = "call"

\* lines 82-90: the call
Cluster ==
    /\ pcc = "call"
    /\ clustered' = cluster_by_centroid(df, eps2, min_samples, validates)
    /\ pcc' = "done"
    /\ UNCHANGED <<df, eps2, min_samples, validates, sweepVars, stackVars>>

ClusterNext == Cluster

SpecCluster == ClusterInit /\ [][ClusterNext]_vars

(***************************************************************************)
(* Properties of the sweep.                                                *)
(***************************************************************************)
Offsets == SweepStart .. SweepStop - 1

\* number of contours with at least 3 vertices the primitives find at offset o
GoodContours(img, o) ==
    LET cs == ContoursAt(img, o)
    IN Cardinality({i \in 1 .. Len(cs) : Len(cs[i]) >= 3})

HasDegenerate(img, o) ==
    LET cs == ContoursAt(img, o) IN \E i \in 1 .. Len(cs) : Len(cs[i]) < 3

Tagged(recs, o) == Cardinality({i \in 1 .. Len(recs) : recs[i].offset = o})

RECURSIVE SumGood(_, _, _)
SumGood(img, lo, hi) ==
    IF lo > hi THEN 0
    ELSE IF lo = hi THEN GoodContours(img, lo)
    ELSE LET mid == (lo + hi) \div 2
         IN SumGood(img, lo, mid) + SumGood(img, mid + 1, hi)

\* C1: every record appended by segment_compartments_from_holes has a boundary
\* of at least 3 vertices, and the records of the offset just handled are the
\* flipped contours of at least 3 vertices found at that offset, in order: a
\* contour with fewer than 3 vertices produces no record and the loop goes on
\* to the next contour and the next offset.
C1_BoundaryAtLeastThree ==
    /\ \A i \in 1 .. Len(segmented_polygons) : Len(segmented_polygons[i].boundary) >= 3
    /\ (pc = "sweep" /\ offst > SweepStart) =>
          LET good == SelectSeq(ContoursAt(image, offst - 1), LAMBDA c : Len(c) >= 3)
              new == SelectSeq(segmented_polygons, LAMBDA r : r.offset = offst - 1)
          IN /\ Len(new) = Len(good)
             /\ \A j \in 1 .. Len(new) : new[j].boundary = fliplr(good[j])

\* C1 witness: the sweep has passed an offset with a 2-vertex contour, a
\* record of that same offset is in the list and the loop is still running
C1_Witness ==
    /\ pc = "sweep"
    /\ offst > SweepStart
    /\ HasDegenerate(image, offst - 1)
    /\ Tagged(segmented_polygons, offst - 1) > 0

C8_BinaryIsTextureAboveThreshold ==
    (pc \in {"sweep", "done"} /\ offst > SweepStart) =>
       \A p \in Pix : binary_local[p] <=> (2 * image.entr[p] > local_thresh[p])

\* C9: when the sweep returns, the loop variable has run through 1 .. 299, the
\* records are in offset order, every offset o of 1 .. 299 has exactly as many
\* records tagged o as there are contours of at least 3 vertices at o (equal
\* polygons of different offsets are all kept), no record carries another
\* offset, and the length of the result is the sum of these counts
C9_SweepIsConcatenation ==
    /\ pc = "sweep" => offst \in SweepStart .. SweepStop
    /\ pc = "done" =>
          /\ offst = SweepStop
          /\ \A o \in Offsets : Tagged(ret, o) = GoodContours(image, o)
          /\ \A i \in 1 .. Len(ret) : ret[i].offset \in Offsets
          /\ \A i \in 1 .. Len(ret) - 1 : ret[i].offset <= ret[i + 1].offset
          /\ Len(ret) = SumGood(image, SweepStart, SweepStop - 1)

\* C9 witness: a returned list in which two different offsets carry the same
\* polygon
C9_Witness ==
    /\ pc = "done"
    /\ \E i, j \in 1 .. Len(ret) :
          ret[i].offset # ret[j].offset /\ ret[i].boundary = ret[j].boundary

(***************************************************************************)
(* Properties of the z-stack driver.                                       *)
(***************************************************************************)
Coords == Channels \X Zs \X Frames

ZColumn(table) == {table[i].z : i \in 1 .. Len(table)}

Logged == {log_z[i].z : i \in 1 .. Len(log_z)}

\* the rows the slice at z contributes in the running call
SliceRows(z) ==
    LET img == image_md(file, <<channel, z, frame>>).image
    IN IF img.valid
       THEN concentric(simple_polygon(TagZ(SegmentOf(img), z), file.drop))
       ELSE <<>>

\* C2: z-indices for which ix_at returns None are skipped without raising, and
\* the z column of the table (running and returned) holds only z-indices that
\* have an image: segment_zstack raises only at a z-index that has one, a
\* returned table was built from exactly the z-indices that have one.
C2_MissingSlicesSkipped ==
    /\ ZColumn(out) \subseteq file.present
    /\ Logged \subseteq file.present
    /\ pcz = "raised" => zstacks[zi] \in file.present
    /\ pcz = "done" =>
          /\ Logged = file.present
          /\ ZColumn(stack_ret) \subseteq file.present
          /\ \A z \in file.present : SliceRows(z) # <<>> => z \in ZColumn(stack_ret)

\* C2 witness: a table returned for a stack in which exactly one declared
\* z-index, not the first, has an image; its z column is that one index
C2_Witness ==
    /\ pcz = "done"
    /\ Cardinality(file.present) = 1
    /\ zstacks[1] \notin file.present
    /\ stack_ret # <<>>
    /\ ZColumn(stack_ret) = file.present

C10_CachePerCoordinate ==
    /\ \A k \in DOMAIN cache :
          /\ Cardinality({x \in Coords : CacheKey(x[2], x[1], x[3]) = k}) = 1
          /\ \A x \in Coords :
                CacheKey(x[2], x[1], x[3]) = k =>
                    cache[k] = SegmentOf(PictureAt(x[1], x[2], x[3]))
    /\ \A z \in Zs :
          SelectSeq(out, LAMBDA r : r.z = z) = IF z \in Logged THEN SliceRows(z) ELSE <<>>
    /\ pcz = "done" => stack_ret = out
    /\ \A i, j \in 1 .. Len(log_z) : log_z[i].z = log_z[j].z => i = j
    /\ Logged \subseteq file.present

\* C10 witness: a later call reads one slice from the cache and computes
\* another, while the cache holds lists of several coordinates
C10_Witness ==
    /\ ncalls > 1
    /\ \E i, j \in 1 .. Len(log_z) : log_z[i].hit /\ ~log_z[j].hit
    /\ out # <<>>
    /\ \E k1, k2 \in DOMAIN cache : cache[k1] # cache[k2]

(***************************************************************************)
(* Properties of cluster_by_centroid.                                      *)
(***************************************************************************)
ValidParameters == eps2 > 0 /\ min_samples >= 1

HasCentroids(table) == \A i \in 1 .. Len(table.rows) : table.rows[i].boundary # <<>>

Labelled == pcc = "done" /\ ~clustered.raised

SameRowsPlusLabels(table) ==
    /\ table.rows = df.rows
    /\ df.cluster # <<>> => table.cluster = df.cluster
    /\ Len(table.cluster) = Len(df.rows)
    /\ \A i \in 1 .. Len(table.cluster) : table.cluster[i] \in Int /\ table.cluster[i] >= -1

\* C6 as stated: for any input table and valid parameters the call returns
\* such a table
C6_AnyTableLabelled ==
    (pcc = "done" /\ ValidParameters) =>
       /\ ~clustered.raised
       /\ SameRowsPlusLabels(clustered.table)

\* C6 amended: for any non-empty input table whose boundaries all have a
\* centroid and which has no cluster column yet, and valid parameters,
\* cluster_by_centroid returns a table with exactly the input's rows in the
\* same order and all input columns unchanged, plus one cluster column with
\* one integer label >= -1 per row; the input table is not modified.
C6_NonEmptyTableLabelled ==
    /\ [](  (pcc = "done" /\ ValidParameters /\ df.rows # <<>> /\ HasCentroids(df)
               /\ df.cluster = <<>>) =>
              /\ ~clustered.raised
              /\ SameRowsPlusLabels(clustered.table))
    /\ [][df' = df]_vars

\* C6 witness: a returned table of several rows in which some row is noise and
\* some row is in a cluster
C6_Witness ==
    /\ Labelled
    /\ ValidParameters
    /\ df.cluster = <<>>
    /\ \E i, j \in 1 .. Len(df.rows) :
          clustered.table.cluster[i] = -1 /\ clustered.table.cluster[j] >= 0

\* the rows whose standardized centroid is within eps of row i's
Near(i) ==
    LET S == StandardScaler(CentroidList(df.rows))
    IN {j \in 1 .. Len(df.rows) : Within(S, i, j, eps2)}

CorePoint(i) == Cardinality(Near(i)) >= min_samples

\* C7: in a table returned for valid parameters, a row has label -1 exactly
\* when its standardized centroid has fewer than min_samples points (itself
\* included) within eps and lies within eps of no core point; every core point
\* and every point within eps of a core point has a label >= 0.
C7_NoiseExactlyUnreachable ==
    (Labelled /\ ValidParameters) =>
       \A i \in 1 .. Len(df.rows) :
          LET reached == CorePoint(i) \/ \E j \in Near(i) : CorePoint(j)
          IN /\ ~reached => clustered.table.cluster[i] = -1
             /\ reached => clustered.table.cluster[i] >= 0

\* C7 witness: a returned table with a core point, a point that is not a core
\* point but within eps of one (labelled >= 0), and a noise point
C7_Witness ==
    /\ Labelled
    /\ ValidParameters
    /\ \E i, j, k \in 1 .. Len(df.rows) :
          /\ CorePoint(i)
          /\ ~CorePoint(j) /\ i \in Near(j) /\ clustered.table.cluster[j] >= 0
          /\ clustered.table.cluster[k] = -1

====
